---- MODULE Spec2Model ----
(***************************************************************************)
(* A model of dns_compare.py: main's construction of the server            *)
(* assignment and of the task list, the get_results tasks running under    *)
(* the shared asyncio.Semaphore, asyncio.gather, and the aggregation of    *)
(* the minimum latencies into the printed table.                           *)
(*                                                                         *)
(* An Optional value is a sequence: None is <<>> and a value x is <<x>>.    *)
(* A PingResults object is a record whose min field is an Optional         *)
(* latency.  A raised exception is the name of its class and its message   *)
(* prefix; "" is no exception.                                             *)
(***************************************************************************)
EXTENDS Integers, Sequences, FiniteSets, TLC

VARIABLES
    SERVERS,        \* the provider configuration, a sequence of [name, addrs]
    num_domains,    \* main: num_domains
    ceiling,        \* main: the value the Semaphore is constructed with
    main_pc,        \* where main is
    ai, aj,         \* main: position of the two assignment loops
    server_lists,   \* main: server_addrs while it is a list of lists
    server_addrs,   \* main: server_addrs after flattening
    providers,      \* main: providers
    domains,        \* main: domains
    awaitables,     \* main: the arguments of each get_results call
    pc,             \* per task: where get_results is
    fut,            \* per task: state of its future in Semaphore.acquire
    sem_value,      \* Semaphore._value
    sem_waiters,    \* Semaphore._waiters
    holding,        \* tasks inside the body of `async with semaphore`
    ret,            \* per task: the value get_results returned
    exc,            \* per task: the exception get_results raised
    results,        \* main: results
    table,          \* main: results_by_provider after the cell loop
    report,         \* the printed rows
    cancel_req,     \* the event loop has cancelled the remaining tasks
    interrupted,    \* the run was interrupted from outside
    call            \* one call of ping on its own: arguments, process, result

vars == <<SERVERS, num_domains, ceiling, main_pc, ai, aj, server_lists,
          server_addrs, providers, domains, awaitables, pc, fut, sem_value,
          sem_waiters, holding, ret, exc, results, table, report, cancel_req,
          interrupted, call>>

(***************************************************************************)
(* Bounds of the model.                                                    *)
(***************************************************************************)
MaxProviders == 3
MaxServers == 2
MaxDomains == 2
MaxCeiling == 2
MaxTasks == 4
MaxLat == 1
MaxCount == 3
MaxFairTasks == 3

\* Python's Optional: None is the empty sequence, a value x is <<x>>.
None == <<>>
Some(x) == <<x>>

ProviderNames == <<"cloudflare", "google", "quad9", "opendns", "adguard">>

DOMAINS == <<"google.com", "youtube.com", "facebook.com", "amazon.com">>

\* The k-th address of the i-th provider.
Addr(i, k) == i * 10 + k

\* Every configuration of at most maxP providers with 1..maxS servers each.
Configs(maxP, maxS) ==
    UNION { { [i \in 1..n |->
                 [name |-> ProviderNames[i],
                  addrs |-> [k \in 1..cnt[i] |-> Addr(i, k)]]] :
              cnt \in [1..n -> 1..maxS] } : n \in 1..maxP }

RECURSIVE SumServers(_)
SumServers(cfg) ==
    IF cfg = <<>> THEN 0 ELSE Len(Head(cfg).addrs) + SumServers(Tail(cfg))

(***************************************************************************)
(* main, lines 206-212: the server assignment.                             *)
(***************************************************************************)
\* One execution of the inner loop body, for index i (from 1) and item.
AssignBodyOverwrite(lists, i, item) ==
    LET grown == IF Len(lists) < i THEN Append(lists, <<>>) ELSE lists
    IN  [grown EXCEPT ![i] = <<item>>]

AssignBodyPrepend(lists, i, item) ==
    LET grown == IF Len(lists) < i THEN Append(lists, <<>>) ELSE lists
    IN  [grown EXCEPT ![i] = <<item>> \o @]

AssignBody(lists, i, item) ==
    LET grown == IF Len(lists) < i THEN Append(lists, <<>>) ELSE lists
    IN  [grown EXCEPT ![i] = Append(@, item)]

RECURSIVE Flatten(_)
Flatten(lists) ==
    IF lists = <<>> THEN <<>> ELSE Head(lists) \o Flatten(Tail(lists))

AssignStep ==
    /\ main_pc = "assign"
    /\ ai <= Len(SERVERS)
    /\ LET p == SERVERS[ai]
       IN  /\ server_lists' = AssignBody(server_lists, aj, <<p.name, p.addrs[aj]>>)
           /\ IF aj < Len(p.addrs)
              THEN /\ aj' = aj + 1
                   /\ ai' = ai
              ELSE /\ aj' = 1
                   /\ ai' = ai + 1
    /\ UNCHANGED <<SERVERS, num_domains, ceiling, main_pc, server_addrs,
                   providers, domains, awaitables, pc, fut, sem_value,
                   sem_waiters, holding, ret, exc, results, table, report,
                   cancel_req, interrupted, call>>

AssignFlatten ==
    /\ main_pc = "assign"
    /\ ai > Len(SERVERS)
    /\ server_addrs' = Flatten(server_lists)
    /\ main_pc' = "tasks"
    /\ UNCHANGED <<SERVERS, num_domains, ceiling, ai, aj, server_lists,
                   providers, domains, awaitables, pc, fut, sem_value,
                   sem_waiters, holding, ret, exc, results, table, report,
                   cancel_req, interrupted, call>>

(***************************************************************************)
(* main, lines 215-222: the task list.  Task i (from 1) belongs to domain  *)
(* (i-1) \div |server_addrs| + 1 and assignment (i-1) % |server_addrs| + 1.*)
(***************************************************************************)
DomainOf(i, sa) == DOMAINS[((i - 1) \div Len(sa)) + 1]
ItemOf(i, sa) == sa[((i - 1) % Len(sa)) + 1]

AwaitablesFirstDomain(nd, sa) ==
    [i \in 1..(nd * Len(sa)) |->
        [domain |-> DOMAINS[1], provider |-> ItemOf(i, sa)[1],
         server |-> ItemOf(i, sa)[2]]]

\* The arguments of the get_results call appended at line 222.
Awaitables(nd, sa) ==
    [i \in 1..(nd * Len(sa)) |->
        [domain |-> DomainOf(i, sa), provider |-> ItemOf(i, sa)[1],
         server |-> ItemOf(i, sa)[2]]]

\* providers, line 220.
ProvidersList(nd, sa) == [i \in 1..(nd * Len(sa)) |-> ItemOf(i, sa)[1]]

\* domains, line 221.
DomainsList(nd, sa) == [i \in 1..(nd * Len(sa)) |-> DomainOf(i, sa)]

Tasks == 1..Len(awaitables)

BuildTasks ==
    /\ main_pc = "tasks"
    /\ providers' = ProvidersList(num_domains, server_addrs)
    /\ domains' = DomainsList(num_domains, server_addrs)
    /\ awaitables' = Awaitables(num_domains, server_addrs)
    /\ pc' = [i \in 1..(num_domains * Len(server_addrs)) |-> "created"]
    /\ fut' = [i \in 1..(num_domains * Len(server_addrs)) |-> "none"]
    /\ ret' = [i \in 1..(num_domains * Len(server_addrs)) |-> None]
    /\ exc' = [i \in 1..(num_domains * Len(server_addrs)) |-> ""]
    /\ main_pc' = "gather"
    /\ UNCHANGED <<SERVERS, num_domains, ceiling, ai, aj, server_lists,
                   server_addrs, sem_value, sem_waiters, holding, results,
                   table, report, cancel_req, interrupted, call>>

(***************************************************************************)
(* asyncio.Semaphore as get_results uses it at line 182.  A semaphore      *)
(* state is a record [value, waiters, fut, holding].                       *)
(***************************************************************************)
Sem == [value |-> sem_value, waiters |-> sem_waiters, fut |-> fut,
        holding |-> holding]

SetSem(s) ==
    /\ sem_value' = s.value
    /\ sem_waiters' = s.waiters
    /\ fut' = s.fut
    /\ holding' = s.holding

\* Semaphore.locked().
LockedNever(s) == FALSE

Locked(s) ==
    \/ s.value = 0
    \/ \E i \in 1..Len(s.waiters) : s.fut[s.waiters[i]] # "cancelled"

\* Semaphore._wake_up_next(): the first waiter whose future is not done.
WakeUpNext(s) ==
    LET pending == { i \in 1..Len(s.waiters) : s.fut[s.waiters[i]] = "pending" }
    IN  IF pending = {} THEN s
        ELSE LET i == CHOOSE i \in pending : \A j \in pending : i <= j
             IN  [s EXCEPT !.value = @ - 1, !.fut[s.waiters[i]] = "done"]

ReleaseForgotten(s, t) == [s EXCEPT !.holding = @ \ {t}]

\* Semaphore.release(), the exit of `async with semaphore`.
Release(s, t) ==
    WakeUpNext([s EXCEPT !.value = @ + 1, !.holding = @ \ {t}])

RemoveWaiter(w, t) == SelectSeq(w, LAMBDA u : u # t)

\* The semaphore when the task goes from the resolve call to the probe
\* call: lines 189-192 stay inside the `async with` block.
BetweenCallsReleased(s, t) == Release(s, t)

BetweenCalls(s, t) == s

(***************************************************************************)
(* dig, lines 161-177.  stdout is a sequence of tokens of which " " is     *)
(* whitespace.  A call's result is [exc, val].                             *)
(***************************************************************************)
Split(stdout) == SelectSeq(stdout, LAMBDA c : c # " ")

DigEmptyRaises(returncode, stdout) ==
    LET addrs == Split(stdout)
    IN  IF returncode # 0 \/ addrs = <<>>
        THEN [exc |-> "RuntimeError", val |-> None]
        ELSE [exc |-> "", val |-> Some(addrs[1])]

Dig(returncode, stdout) ==
    IF returncode # 0
    THEN [exc |-> "RuntimeError", val |-> None]
    ELSE LET addrs == Split(stdout)
         IN  IF addrs = <<>>
             THEN [exc |-> "", val |-> None]
             ELSE [exc |-> "", val |-> Some(addrs[1])]

(***************************************************************************)
(* PingResults and ping, lines 119-158.  The output of the utility is      *)
(* [stats, rtt, trailing]: whether the statistics line is there, the       *)
(* Optional [min, avg, max, mdev] of the RTT line, whether text follows    *)
(* the two lines.                                                          *)
(***************************************************************************)
\* PING_RESULTS_REGEX.search(output): the statistics line, the optional
\* RTT line, then the end of the text.
Matches(output) == output.stats /\ ~output.trailing

FloatOrNoneZero(rtt, f) == IF rtt = None THEN Some(0) ELSE Some(rtt[1][f])

\* m.group(f) put through _float_or_none.
FloatOrNone(rtt, f) == IF rtt = None THEN None ELSE Some(rtt[1][f])

\* PingResults.__init__
PingResults(output) ==
    IF ~Matches(output)
    THEN [exc |-> "RuntimeError", val |-> None]
    ELSE [exc |-> "",
          val |-> Some([min |-> FloatOrNone(output.rtt, "min"),
                        avg |-> FloatOrNone(output.rtt, "avg"),
                        max |-> FloatOrNone(output.rtt, "max"),
                        mdev |-> FloatOrNone(output.rtt, "mdev")])]

\* ping: the return code of the process is not read.
Ping(returncode, output) ==
    LET r == PingResults(output)
    IN  IF r.exc # "" THEN [exc |-> "RuntimeError", val |-> None] ELSE r

\* What the two utilities can answer.  In the batch the address task t
\* resolves to has latency t - 1, when it answers.
LatencyOf(t) == t - 1
Latencies == 0..MaxLat
DigAnswers == { <<>>, <<" ">>, <<"a1">>, <<" ", "a1", " ", "a2">> }
Rtts(lats) ==
    { [min |-> w[1], avg |-> w[2], max |-> w[2], mdev |-> w[2] - w[1]] :
        w \in { w \in lats \X lats : w[1] <= w[2] } }
PingOutputs(lats) ==
    { [stats |-> TRUE, rtt |-> Some(r), trailing |-> FALSE] : r \in Rtts(lats) }
    \cup { [stats |-> TRUE, rtt |-> None, trailing |-> FALSE],
           [stats |-> FALSE, rtt |-> None, trailing |-> FALSE],
           [stats |-> TRUE, rtt |-> None, trailing |-> TRUE] }
ReturnCodes == {0, 1}

(***************************************************************************)
(* get_results, lines 179-197, one action per resumption of the task.      *)
(***************************************************************************)
MainFrame == <<SERVERS, num_domains, ceiling, main_pc, ai, aj, server_lists,
               server_addrs, providers, domains, awaitables, results, table,
               report, cancel_req, interrupted, call>>

\* The task leaves get_results by returning v.
Return(t, v, s) ==
    /\ pc' = [pc EXCEPT ![t] = "returned"]
    /\ ret' = [ret EXCEPT ![t] = v]
    /\ exc' = exc
    /\ SetSem(s)

\* The task leaves get_results by raising e.
Raise(t, e, s) ==
    /\ pc' = [pc EXCEPT ![t] = "raised"]
    /\ exc' = [exc EXCEPT ![t] = e]
    /\ ret' = ret
    /\ SetSem(s)

\* The event loop runs the first step of every task gather created, in
\* order, before it handles the end of any process.
AllStarted == \A u \in Tasks : pc[u] # "created"

\* The first step of a task: Semaphore.acquire() at line 182.
Start(t) ==
    /\ main_pc = "gather"
    /\ ~cancel_req
    /\ pc[t] = "created"
    /\ \A u \in Tasks : u < t => pc[u] # "created"
    /\ IF ~Locked(Sem)
       THEN /\ pc' = [pc EXCEPT ![t] = "dig"]
            /\ SetSem([Sem EXCEPT !.value = @ - 1, !.holding = @ \cup {t}])
       ELSE /\ pc' = [pc EXCEPT ![t] = "acquire"]
            /\ SetSem([Sem EXCEPT !.waiters = Append(@, t),
                                  !.fut[t] = "pending"])
    /\ UNCHANGED <<ret, exc>>
    /\ UNCHANGED MainFrame

\* A waiter whose future was set resumes in Semaphore.acquire().
Resume(t) ==
    /\ ~cancel_req
    /\ AllStarted
    /\ pc[t] = "acquire"
    /\ fut[t] = "done"
    /\ LET s1 == [Sem EXCEPT !.waiters = RemoveWaiter(@, t),
                             !.holding = @ \cup {t}]
           s2 == IF s1.value > 0 THEN WakeUpNext(s1) ELSE s1
       IN  SetSem(s2)
    /\ pc' = [pc EXCEPT ![t] = "dig"]
    /\ UNCHANGED <<ret, exc>>
    /\ UNCHANGED MainFrame

\* Lines 183-190: what get_results does with the outcome r of dig.  next
\* is where the task goes, val the address or the returned value.
AfterDigNoCheck(r) ==
    IF r.exc # ""
    THEN [next |-> "raised", exc |-> "RuntimeError: Dig error", val |-> None]
    ELSE [next |-> "ping", exc |-> "", val |-> r.val]

AfterDig(r) ==
    IF r.exc # ""
    THEN [next |-> "raised", exc |-> "RuntimeError: Dig error", val |-> None]
    ELSE IF r.val = None
    THEN [next |-> "returned", exc |-> "", val |-> None]
    ELSE [next |-> "ping", exc |-> "", val |-> r.val]

\* Lines 191-197: what get_results does with the outcome r of ping.
AfterPing(r) ==
    IF r.exc # ""
    THEN [next |-> "raised", exc |-> "RuntimeError: Ping error", val |-> None]
    ELSE [next |-> "returned", exc |-> "", val |-> r.val]

\* The dig process ends: lines 184-190.
DigDone(t) ==
    /\ ~cancel_req
    /\ AllStarted
    /\ pc[t] = "dig"
    /\ \E returncode \in ReturnCodes, stdout \in DigAnswers :
          LET a == AfterDig(Dig(returncode, stdout))
          IN  IF a.next = "raised"
              THEN Raise(t, a.exc, Release(Sem, t))
              ELSE IF a.next = "returned"
              THEN Return(t, a.val, Release(Sem, t))
              ELSE /\ pc' = [pc EXCEPT ![t] = "ping"]
                   /\ SetSem(BetweenCalls(Sem, t))
                   /\ UNCHANGED <<ret, exc>>
    /\ UNCHANGED MainFrame

\* The ping process ends: lines 191-197.
PingDone(t) ==
    /\ ~cancel_req
    /\ AllStarted
    /\ pc[t] = "ping"
    /\ \E returncode \in ReturnCodes, output \in PingOutputs({LatencyOf(t)}) :
          LET b == AfterPing(Ping(returncode, output))
          IN  IF b.next = "raised"
              THEN Raise(t, b.exc, Release(Sem, t))
              ELSE Return(t, b.val, Release(Sem, t))
    /\ UNCHANGED MainFrame

\* A cancelled task is resumed with CancelledError: lines 185-186 and
\* 193-194 re-raise it, Semaphore.acquire() gives a received slot back, and
\* a task that never ran never enters the body.
Cancelled(t) ==
    /\ cancel_req
    /\ pc[t] \in {"created", "acquire", "dig", "ping"}
    /\ LET s == IF pc[t] = "created" THEN Sem
                ELSE IF pc[t] = "acquire"
                THEN LET s1 == [Sem EXCEPT !.waiters = RemoveWaiter(@, t)]
                     IN  IF fut[t] = "done"
                         THEN WakeUpNext([s1 EXCEPT !.value = @ + 1])
                         ELSE s1
                ELSE Release(Sem, t)
       IN  Raise(t, "CancelledError", s)
    /\ UNCHANGED MainFrame

(***************************************************************************)
(* asyncio.gather and asyncio.run, lines 223 and 243-244.                  *)
(***************************************************************************)
TaskFrame == <<pc, ret, exc, sem_value, sem_waiters, holding>>

\* Task.cancel() on every task: a pending acquire future is cancelled.
CancelFutures(f) ==
    [t \in DOMAIN f |-> IF f[t] = "pending" THEN "cancelled" ELSE f[t]]

\* gather returns the children's results in the order of its arguments.
GatherResultsReversed(r) == [i \in DOMAIN r |-> r[Len(r) + 1 - i]]

GatherResults(r) == [i \in DOMAIN r |-> r[i]]

GatherReturn ==
    /\ main_pc = "gather"
    /\ \A t \in Tasks : pc[t] = "returned"
    /\ results' = GatherResults(ret)
    /\ main_pc' = "aggregate"
    /\ UNCHANGED <<SERVERS, num_domains, ceiling, ai, aj, server_lists,
                   server_addrs, providers, domains, awaitables, table, report,
                   cancel_req, interrupted, fut, call>>
    /\ UNCHANGED TaskFrame

\* A child raised: gather raises in main, main ends and asyncio.run
\* cancels the tasks that remain.
GatherRaise ==
    /\ main_pc = "gather"
    /\ \E t \in Tasks : pc[t] = "raised"
    /\ main_pc' = "raised"
    /\ cancel_req' = TRUE
    /\ fut' = CancelFutures(fut)
    /\ UNCHANGED <<SERVERS, num_domains, ceiling, ai, aj, server_lists,
                   server_addrs, providers, domains, awaitables, results, table,
                   report, interrupted, call>>
    /\ UNCHANGED TaskFrame

\* The run is interrupted while main awaits gather: every task is cancelled.
Interrupt ==
    /\ main_pc = "gather"
    /\ ~cancel_req
    /\ main_pc' = "raised"
    /\ cancel_req' = TRUE
    /\ interrupted' = TRUE
    /\ fut' = CancelFutures(fut)
    /\ UNCHANGED <<SERVERS, num_domains, ceiling, ai, aj, server_lists,
                   server_addrs, providers, domains, awaitables, results, table,
                   report, call>>
    /\ UNCHANGED TaskFrame

(***************************************************************************)
(* main, lines 225-236: the aggregation.  A dict is a record [keys, at]:   *)
(* its keys in insertion order and the value at each key.                  *)
(***************************************************************************)
\* mins, line 225.
Mins(res) ==
    [i \in DOMAIN res |-> IF res[i] = None THEN None ELSE res[i][1].min]

\* The keys of seq in order of first appearance.
RECURSIVE Keys(_)
Keys(seq) ==
    IF seq = <<>> THEN <<>>
    ELSE LET front == Keys(SubSeq(seq, 1, Len(seq) - 1))
             last == seq[Len(seq)]
         IN  IF \E i \in 1..Len(front) : front[i] = last
             THEN front ELSE Append(front, last)

Range(seq) == { seq[i] : i \in DOMAIN seq }

RECURSIVE CollectedLast(_, _, _, _, _)
CollectedLast(ps, ds, ms, d, p) ==
    IF ms = <<>> THEN <<>>
    ELSE LET rest == CollectedLast(Tail(ps), Tail(ds), Tail(ms), d, p)
         IN  IF Head(ds) = d /\ Head(ps) = p /\ rest = <<>>
             THEN <<Head(ms)>> ELSE rest

\* The list results_by_provider[d][p] after the loop of lines 229-230.
RECURSIVE Collected(_, _, _, _, _)
Collected(ps, ds, ms, d, p) ==
    IF ms = <<>> THEN <<>>
    ELSE LET rest == Collected(Tail(ps), Tail(ds), Tail(ms), d, p)
         IN  IF Head(ds) = d /\ Head(ps) = p THEN <<Head(ms)>> \o rest ELSE rest

\* Python's truth value of an Optional float: None and 0.0 are false.
Truthy(m) == m # None /\ m[1] # 0

RECURSIVE Sum(_)
Sum(ms) == IF ms = <<>> THEN 0 ELSE Head(ms)[1] + Sum(Tail(ms))

RECURSIVE Gcd(_, _)
Gcd(a, b) == IF b = 0 THEN a ELSE Gcd(b, a % b)

\* The float a / b, as the fraction in lowest terms.
Div(a, b) == LET g == Gcd(a, b) IN IF g = 0 THEN <<0, 1>> ELSE <<a \div g, b \div g>>

\* The string of line 236: mean is None for the infinity sign, annot is
\* None when there is no annotation.  filtered_len and len are the two
\* counts the string is built from.
Cell(ms) ==
    LET filtered == SelectSeq(ms, Truthy)
        _sum == Sum(filtered)
        filtered_len == Len(filtered)
    IN  [mean |-> IF filtered_len # 0 THEN Some(Div(_sum, filtered_len)) ELSE None,
         annot |-> IF filtered_len = Len(ms) THEN None
                   ELSE Some(<<filtered_len, Len(ms)>>),
         filtered_len |-> filtered_len,
         len |-> Len(ms)]

\* results_by_provider after line 236.
ResultsByProvider(ps, ds, ms) ==
    [keys |-> Keys(ds),
     at |-> [d \in Range(ds) |->
               LET mine == { i \in DOMAIN ds : ds[i] = d }
                   pkeys == Keys(SelectSeq(ps, LAMBDA p :
                               \E i \in mine : ps[i] = p))
               IN  [keys |-> pkeys,
                    at |-> [p \in Range(pkeys) |-> Cell(Collected(ps, ds, ms, d, p))]]]]

Aggregate ==
    /\ main_pc = "aggregate"
    /\ table' = ResultsByProvider(providers, domains, Mins(results))
    /\ main_pc' = "print"
    /\ UNCHANGED <<SERVERS, num_domains, ceiling, ai, aj, server_lists,
                   server_addrs, providers, domains, awaitables, results,
                   report, cancel_req, interrupted, fut, call>>
    /\ UNCHANGED TaskFrame

(***************************************************************************)
(* main, lines 239-241: the report.  A row is [domain, cells], the cells   *)
(* in the order of SERVERS; d[provider] of a provider the defaultdict has  *)
(* no list for is the empty list.                                          *)
(***************************************************************************)
EmptyList == [mean |-> None, annot |-> None, filtered_len |-> 0, len |-> 0]

Lookup(d, provider) ==
    IF provider \in DOMAIN d.at THEN d.at[provider] ELSE EmptyList

Rows(tab, cfg) ==
    [r \in 1..Len(tab.keys) |->
        [domain |-> tab.keys[r],
         cells |-> [c \in 1..Len(cfg) |->
                      Lookup(tab.at[tab.keys[r]], cfg[c].name)]]]

PrintTable ==
    /\ main_pc = "print"
    /\ report' = [header |-> [c \in 1..Len(SERVERS) |-> SERVERS[c].name],
                  rows |-> Rows(table, SERVERS)]
    /\ main_pc' = "done"
    /\ UNCHANGED <<SERVERS, num_domains, ceiling, ai, aj, server_lists,
                   server_addrs, providers, domains, awaitables, results,
                   table, cancel_req, interrupted, fut, call>>
    /\ UNCHANGED TaskFrame

(***************************************************************************)
(* The batch: main from line 205 on, with the semaphore of line 203.       *)
(***************************************************************************)
NoCall == [fn |-> "none"]
NoTable == [keys |-> <<>>, at |-> <<>>]
NoReport == [header |-> <<>>, rows |-> <<>>]

InitWith(cfg, nd, c) ==
    /\ SERVERS = cfg
    /\ num_domains = nd
    /\ ceiling = c
    /\ main_pc = "assign"
    /\ ai = 1
    /\ aj = 1
    /\ server_lists = <<>>
    /\ server_addrs = <<>>
    /\ providers = <<>>
    /\ domains = <<>>
    /\ awaitables = <<>>
    /\ pc = <<>>
    /\ fut = <<>>
    /\ sem_value = c
    /\ sem_waiters = <<>>
    /\ holding = {}
    /\ ret = <<>>
    /\ exc = <<>>
    /\ results = <<>>
    /\ table = NoTable
    /\ report = NoReport
    /\ cancel_req = FALSE
    /\ interrupted = FALSE

Init ==
    \E cfg \in Configs(MaxProviders, MaxServers), nd \in 1..MaxDomains,
       c \in 1..MaxCeiling :
        /\ nd * SumServers(cfg) <= MaxTasks
        /\ InitWith(cfg, nd, c)
        /\ call = NoCall

Next ==
    \/ AssignStep
    \/ AssignFlatten
    \/ BuildTasks
    \/ \E t \in Tasks : Start(t)
    \/ \E t \in Tasks : Resume(t)
    \/ \E t \in Tasks : DigDone(t)
    \/ \E t \in Tasks : PingDone(t)
    \/ \E t \in Tasks : Cancelled(t)
    \/ GatherReturn
    \/ GatherRaise
    \/ Interrupt
    \/ Aggregate
    \/ PrintTable

Spec == Init /\ [][Next]_vars

\* The steps of the program itself: every step but the interrupt from
\* outside.
Run ==
    \/ AssignStep
    \/ AssignFlatten
    \/ BuildTasks
    \/ \E t \in Tasks : Start(t)
    \/ \E t \in Tasks : Resume(t)
    \/ \E t \in Tasks : DigDone(t)
    \/ \E t \in Tasks : PingDone(t)
    \/ \E t \in Tasks : Cancelled(t)
    \/ GatherReturn
    \/ GatherRaise
    \/ Aggregate
    \/ PrintTable

\* The event loop runs a callback that is ready and every process the
\* tasks started ends: a step of the program that stays possible is taken.
InitFair ==
    \E cfg \in Configs(MaxProviders, MaxServers), nd \in 1..MaxDomains,
       c \in 1..MaxCeiling :
        /\ nd * SumServers(cfg) <= MaxFairTasks
        /\ InitWith(cfg, nd, c)
        /\ call = NoCall

SpecFair == InitFair /\ [][Next]_vars /\ WF_vars(Run)

(***************************************************************************)
(* The server assignment on its own, over every configuration.             *)
(***************************************************************************)
InitAssign ==
    /\ \E cfg \in Configs(MaxProviders, MaxServers + 1) : InitWith(cfg, 1, 1)
    /\ call = NoCall

NextAssign == AssignStep \/ AssignFlatten

SpecAssign == InitAssign /\ [][NextAssign]_vars

(***************************************************************************)
(* The aggregation on its own: main when gather has returned, over every   *)
(* list of results.                                                        *)
(***************************************************************************)
RECURSIVE AssignFrom(_, _, _, _)
AssignFrom(cfg, i, j, lists) ==
    IF i > Len(cfg) THEN lists
    ELSE IF j > Len(cfg[i].addrs) THEN AssignFrom(cfg, i + 1, 1, lists)
    ELSE AssignFrom(cfg, i, j + 1,
                    AssignBody(lists, j, <<cfg[i].name, cfg[i].addrs[j]>>))

\* server_addrs after line 212.
ServerAddrs(cfg) == Flatten(AssignFrom(cfg, 1, 1, <<>>))

\* What get_results can return.
ReturnValues ==
    {None} \cup { PingResults(o).val :
                    o \in UNION { { o \in PingOutputs({v}) : Matches(o) } :
                                  v \in Latencies } }

InitAgg ==
    \E cfg \in Configs(MaxProviders, MaxServers), nd \in 1..MaxDomains :
        /\ nd * SumServers(cfg) <= MaxTasks
        /\ \E res \in [1..(nd * SumServers(cfg)) -> ReturnValues] :
            /\ SERVERS = cfg
            /\ num_domains = nd
            /\ ceiling = 1
            /\ main_pc = "aggregate"
            /\ ai = Len(cfg) + 1
            /\ aj = 1
            /\ server_lists = AssignFrom(cfg, 1, 1, <<>>)
            /\ server_addrs = ServerAddrs(cfg)
            /\ providers = ProvidersList(nd, ServerAddrs(cfg))
            /\ domains = DomainsList(nd, ServerAddrs(cfg))
            /\ awaitables = Awaitables(nd, ServerAddrs(cfg))
            /\ pc = [i \in 1..(nd * SumServers(cfg)) |-> "returned"]
            /\ fut = [i \in 1..(nd * SumServers(cfg)) |-> "none"]
            /\ sem_value = 1
            /\ sem_waiters = <<>>
            /\ holding = {}
            /\ ret = res
            /\ exc = [i \in 1..(nd * SumServers(cfg)) |-> ""]
            /\ results = GatherResults(res)
            /\ table = NoTable
            /\ report = NoReport
            /\ cancel_req = FALSE
            /\ interrupted = FALSE
            /\ call = NoCall

NextAgg == Aggregate \/ PrintTable

SpecAgg == InitAgg /\ [][NextAgg]_vars

(***************************************************************************)
(* ping on its own, lines 148-158: the process is started, then its end    *)
(* is awaited and its output parsed.                                       *)
(***************************************************************************)
Addresses == {"a1", "a2"}
PingReturnCodes == {0, 1, 2}

NoProc == [returncode |-> 0,
           stdout |-> [stats |-> FALSE, rtt |-> None, trailing |-> FALSE]]

MainIdle ==
    <<SERVERS, num_domains, ceiling, main_pc, ai, aj, server_lists,
      server_addrs, providers, domains, awaitables, pc, fut, sem_value,
      sem_waiters, holding, ret, exc, results, table, report, cancel_req,
      interrupted>>

\* The command of lines 149-150, 'ping' '-qc1' addr: the option -q, the
\* number c of repetitions asked for, the target.
NoArgv == [prog |-> "", q |-> FALSE, c |-> 0, target |-> ""]

PingCommand(addr, count) == [prog |-> "ping", q |-> TRUE, c |-> 1, target |-> addr]

PingExec ==
    /\ call.fn = "ping"
    /\ call.state = "called"
    /\ call' = [call EXCEPT !.state = "communicate",
                            !.argv = PingCommand(call.addr, call.count)]
    /\ UNCHANGED MainIdle

PingCommunicate ==
    /\ call.fn = "ping"
    /\ call.state = "communicate"
    /\ \E returncode \in PingReturnCodes, output \in PingOutputs(Latencies) :
          call' = [call EXCEPT !.state = "done",
                               !.proc = [returncode |-> returncode,
                                         stdout |-> output],
                               !.result = Ping(returncode, output)]
    /\ UNCHANGED MainIdle

InitPing ==
    /\ \E cfg \in Configs(1, 1) : InitWith(cfg, 1, 1)
    /\ \E addr \in Addresses, count \in 1..MaxCount :
          call = [fn |-> "ping", addr |-> addr, count |-> count,
                  state |-> "called", argv |-> NoArgv, proc |-> NoProc,
                  result |-> [exc |-> "", val |-> None]]

NextPing == PingExec \/ PingCommunicate

SpecPing == InitPing /\ [][NextPing]_vars

(***************************************************************************)
(* dig alone, lines 160-177: one call with its domain and its Optional     *)
(* server, the command it builds, the process it starts and awaits.        *)
(***************************************************************************)
DigServers == {None} \cup {Some(a) : a \in Addresses}
DigReturnCodes == {0, 1, 9}
DigOutputs == DigAnswers \cup { <<" ", " ">>, <<"a2", " ", "a1">> }

NoDigProc == [returncode |-> 0, stdout |-> <<>>]

\* cmd of lines 161-164; '@{server}' is the pair <<"@", server>>.
DigCommand(domain, server) ==
    <<  <<"dig">>, <<"+short">> >>
        \o (IF server # None THEN << <<"@", server[1]>> >> ELSE <<>>)
        \o << <<domain>> >>

DigExec ==
    /\ call.fn = "dig"
    /\ call.state = "called"
    /\ call' = [call EXCEPT !.state = "communicate",
                            !.argv = DigCommand(call.domain, call.server)]
    /\ UNCHANGED MainIdle

DigCommunicate ==
    /\ call.fn = "dig"
    /\ call.state = "communicate"
    /\ \E returncode \in DigReturnCodes, stdout \in DigOutputs :
          call' = [call EXCEPT !.state = "done",
                               !.proc = [returncode |-> returncode,
                                         stdout |-> stdout],
                               !.result = Dig(returncode, stdout)]
    /\ UNCHANGED MainIdle

InitDig ==
    /\ \E cfg \in Configs(1, 1) : InitWith(cfg, 1, 1)
    /\ \E domain \in {DOMAINS[1], DOMAINS[2]}, server \in DigServers :
          call = [fn |-> "dig", domain |-> domain, server |-> server,
                  state |-> "called", argv |-> <<>>, proc |-> NoDigProc,
                  result |-> [exc |-> "", val |-> None]]

NextDig == DigExec \/ DigCommunicate

SpecDig == InitDig /\ [][NextDig]_vars

(***************************************************************************)
(* get_results on its own, called without a semaphore (lines 180-181): the *)
(* processes it starts are counted and the answer of dig is kept.          *)
(***************************************************************************)
NoResult == [exc |-> "", val |-> None]

TaskStart ==
    /\ call.fn = "get_results"
    /\ call.state = "created"
    /\ call' = [call EXCEPT !.state = "dig", !.digs = @ + 1]
    /\ UNCHANGED MainIdle

TaskDigDone ==
    /\ call.fn = "get_results"
    /\ call.state = "dig"
    /\ \E returncode \in ReturnCodes, stdout \in DigAnswers :
          LET a == AfterDig(Dig(returncode, stdout))
          IN  call' = [call EXCEPT
                         !.state = a.next,
                         !.proc = [returncode |-> returncode, stdout |-> stdout],
                         !.addr = IF a.next = "ping" THEN a.val ELSE None,
                         !.pings = IF a.next = "ping" THEN @ + 1 ELSE @,
                         !.result = IF a.next = "ping" THEN NoResult
                                    ELSE [exc |-> a.exc, val |-> a.val]]
    /\ UNCHANGED MainIdle

TaskPingDone ==
    /\ call.fn = "get_results"
    /\ call.state = "ping"
    /\ \E returncode \in ReturnCodes, output \in PingOutputs(Latencies) :
          LET b == AfterPing(Ping(returncode, output))
          IN  call' = [call EXCEPT !.state = b.next,
                                   !.result = [exc |-> b.exc, val |-> b.val]]
    /\ UNCHANGED MainIdle

InitTask ==
    /\ \E cfg \in Configs(1, 1) : InitWith(cfg, 1, 1)
    /\ \E d \in 1..MaxDomains, cfg \in Configs(1, MaxServers),
          count \in 1..MaxCount :
          \E k \in 1..Len(cfg[1].addrs) :
              call = [fn |-> "get_results", domain |-> DOMAINS[d],
                      server |-> cfg[1].addrs[k], provider |-> cfg[1].name,
                      count |-> count,
                      state |-> "created", digs |-> 0, pings |-> 0,
                      proc |-> [returncode |-> 0, stdout |-> <<>>],
                      addr |-> None, result |-> NoResult]

NextTask == TaskStart \/ TaskDigDone \/ TaskPingDone

SpecTask == InitTask /\ [][NextTask]_vars

(***************************************************************************)
(* Properties.                                                             *)
(***************************************************************************)
InFlight == { t \in Tasks : pc[t] \in {"dig", "ping"} }
Left == { t \in Tasks : pc[t] \in {"returned", "raised"} }
GatherReturned == main_pc \in {"aggregate", "print", "done"}

\* C1: without an interrupt from outside, a failing resolve or probe never
\* ends main with an exception and never gets a sibling task cancelled, and
\* when gather has returned main holds one outcome per constructed task.
C1_BatchCompletion ==
    ~interrupted =>
        /\ main_pc # "raised"
        /\ \A t \in Tasks : exc[t] # "CancelledError"
        /\ GatherReturned => Len(results) = Len(awaitables)

\* C2: the number of tasks that hold the gate and are in the resolve or the
\* probe call is at most the ceiling the semaphore was constructed with.
C2_Ceiling == Cardinality(InFlight) <= ceiling

\* The ceiling is reached while a task waits, after a slot was handed over.
C2_Witness ==
    /\ Cardinality(InFlight) = ceiling
    /\ \E t \in Tasks : pc[t] = "acquire"
    /\ \E t \in InFlight : fut[t] = "done"

\* C3: no task leaves get_results with the error of a failed resolve or a
\* failed probe; a task that was not cancelled leaves by returning.
C3_FailureIsolation ==
    \A t \in Tasks :
        /\ exc[t] \notin {"RuntimeError: Dig error", "RuntimeError: Ping error"}
        /\ (t \in Left /\ exc[t] # "CancelledError") => pc[t] = "returned"

\* C4: a task cancelled in its resolve or probe call leaves get_results with
\* the cancellation, and nothing but a cancellation takes a task out of
\* get_results by an exception.
C4_CancellationOnly ==
    [][\A t \in Tasks :
          /\ (cancel_req /\ pc[t] \in {"dig", "ping"} /\ pc'[t] # pc[t])
                => (pc'[t] = "raised" /\ exc'[t] = "CancelledError")
          /\ (pc[t] # "raised" /\ pc'[t] = "raised")
                => exc'[t] = "CancelledError"]_vars

\* C7: a task in its resolve call or in its probe call holds the slot it
\* acquired before the resolve call, and no step that takes it from the
\* resolve call to the probe call gives the slot up.
C7_GateSpan ==
    [][\A t \in Tasks :
          /\ (pc'[t] \in {"dig", "ping"}) => t \in holding'
          /\ (pc[t] = "dig" /\ pc'[t] = "ping") =>
                (t \in holding /\ t \in holding' /\ sem_value' = sem_value)]_vars

\* A task is in its probe call with its slot while another waits for one.
C7_Witness ==
    \E t \in Tasks :
        /\ pc[t] = "ping"
        /\ t \in holding
        /\ \E u \in Tasks : pc[u] = "acquire" /\ fut[u] = "pending"

\* The minimum latencies of the tasks called for (d, p), from task t on.
RECURSIVE OwnMins(_, _, _)
OwnMins(d, p, t) ==
    IF t > Len(awaitables) THEN <<>>
    ELSE IF awaitables[t].domain = d /\ awaitables[t].provider = p
    THEN <<IF ret[t] = None THEN None ELSE ret[t][1].min>> \o OwnMins(d, p, t + 1)
    ELSE OwnMins(d, p, t + 1)

FailedOrNoRecord == { t \in Tasks : pc[t] = "raised" \/ (pc[t] = "returned" /\ ret[t] = None) }

ReportComplete ==
    /\ Len(report.rows) = num_domains
    /\ \A r \in 1..num_domains :
          /\ report.rows[r].domain = DOMAINS[r]
          /\ Len(report.rows[r].cells) = Len(SERVERS)
          /\ \A c \in 1..Len(SERVERS) :
                (\A i \in 1..Len(OwnMins(DOMAINS[r], SERVERS[c].name, 1)) :
                     OwnMins(DOMAINS[r], SERVERS[c].name, 1)[i] = None)
                => (report.rows[r].cells[c].mean = None
                    /\ report.rows[r].cells[c].len > 0)

\* C8: when the batch is over without an interrupt and holds failed or
\* no-record outcomes, the report has a row per evaluated domain, a cell
\* per provider in each row, and the no-data sign in the cell of a pair
\* with no usable sample.
C8_ReportComplete ==
    ( /\ main_pc \in {"done", "raised"}
      /\ ~interrupted
      /\ Tasks # {}
      /\ Left = Tasks
      /\ FailedOrNoRecord # {} ) => ReportComplete

\* C9: whatever the order the tasks ended in, each cell of the report is
\* the cell of the minimum latencies returned by the tasks that were called
\* for the cell's domain and provider.
C9_OrderIndependence ==
    main_pc = "done" =>
        \A r \in 1..Len(report.rows), c \in 1..Len(SERVERS) :
            report.rows[r].cells[c] =
                Cell(OwnMins(report.rows[r].domain, SERVERS[c].name, 1))

\* A report of two providers whose tasks returned different things, one of
\* them after it waited for a slot.
C9_Witness ==
    /\ main_pc = "done"
    /\ Len(SERVERS) >= 2
    /\ \E t, u \in Tasks : ret[t] # ret[u] /\ awaitables[t].provider # awaitables[u].provider
    /\ \E t \in Tasks : fut[t] = "done"

\* Every configured (provider, server) pair.
Pairs(cfg) ==
    UNION { { <<cfg[i].name, cfg[i].addrs[k]>> : k \in 1..Len(cfg[i].addrs) } :
            i \in 1..Len(cfg) }

Occurrences(seq, x) == Cardinality({ i \in DOMAIN seq : seq[i] = x })

\* C10: once main has built the assignment list, every configured
\* (provider, server) pair is in it exactly once, nothing else is in it, and
\* its length is the number of configured servers.
C10_AssignmentPermutation ==
    main_pc # "assign" =>
        /\ \A x \in Pairs(SERVERS) : Occurrences(server_addrs, x) = 1
        /\ \A i \in 1..Len(server_addrs) : server_addrs[i] \in Pairs(SERVERS)
        /\ Len(server_addrs) = SumServers(SERVERS)

\* The list is built for providers with different numbers of servers.
C10_Witness ==
    /\ main_pc = "tasks"
    /\ Len(SERVERS) >= 3
    /\ \E i, j \in 1..Len(SERVERS) : Len(SERVERS[i].addrs) < Len(SERVERS[j].addrs)
    /\ Len(server_addrs) = SumServers(SERVERS)

\* The present entries of a list of minimum latencies.
Present(ms) == SelectSeq(ms, LAMBDA m : m # None)

\* C5: in every cell the usable count is the number of present minimum
\* latencies of the pair (a present zero included), the attempted count is
\* the number of its outcomes, and the mean is the arithmetic mean of the
\* present ones when there is one.
C5_AggregationCounts ==
    main_pc \in {"print", "done"} =>
        \A i \in 1..Len(awaitables) :
            LET d == awaitables[i].domain
                p == awaitables[i].provider
                ms == OwnMins(d, p, 1)
                c == table.at[d].at[p]
            IN  /\ c.filtered_len = Len(Present(ms))
                /\ c.len = Len(ms)
                /\ Len(Present(ms)) > 0 =>
                      c.mean = Some(Div(Sum(Present(ms)), Len(Present(ms))))

\* C6: when ping has ended, a non-zero exit status of the utility has made
\* it raise, and it has returned a result only for exit status zero and an
\* output that matches.
C6_ProbeExitStatus ==
    (call.fn = "ping" /\ call.state = "done") =>
        /\ call.proc.returncode # 0 => call.result.exc # ""
        /\ call.result.exc = "" =>
              (call.proc.returncode = 0 /\ Matches(call.proc.stdout))

\* The position of x in seq, 0 when it is not there.
PositionOf(seq, x) ==
    IF \E i \in DOMAIN seq : seq[i] = x
    THEN CHOOSE i \in DOMAIN seq : seq[i] = x /\ \A j \in 1..(i - 1) : seq[j] # x
    ELSE 0

\* The (provider index, server index) of every configured pair.
PairIndices(cfg) ==
    UNION { { <<i, k>> : k \in 1..Len(cfg[i].addrs) } : i \in 1..Len(cfg) }

PairAt(cfg, ik) == <<cfg[ik[1]].name, cfg[ik[1]].addrs[ik[2]]>>

\* C11: in the assignment list the pair of provider p and its i-th server
\* precedes the pair of provider q and its j-th server exactly when i < j,
\* or i = j and p is configured before q.
C11_AssignmentOrder ==
    main_pc # "assign" =>
        \A x, y \in PairIndices(SERVERS) :
            /\ PositionOf(server_addrs, PairAt(SERVERS, x)) > 0
            /\ (PositionOf(server_addrs, PairAt(SERVERS, x))
                  < PositionOf(server_addrs, PairAt(SERVERS, y)))
               <=> (x[2] < y[2] \/ (x[2] = y[2] /\ x[1] < y[1]))

\* The list of {A: [a1, a2], B: [b1]} is [(A, a1), (B, b1), (A, a2)].
C11_Witness ==
    /\ main_pc = "tasks"
    /\ Len(SERVERS) = 2
    /\ Len(SERVERS[1].addrs) = 2
    /\ Len(SERVERS[2].addrs) = 1
    /\ server_addrs = << <<SERVERS[1].name, SERVERS[1].addrs[1]>>,
                         <<SERVERS[2].name, SERVERS[2].addrs[1]>>,
                         <<SERVERS[1].name, SERVERS[1].addrs[2]>> >>

\* C12: a task whose dig ended with status zero and empty output has
\* returned None without starting a ping; a ping is started only for the
\* address dig returned; a task starts at most one dig and one ping.
C12_NoRecordTerminal ==
    call.fn = "get_results" =>
        /\ call.digs <= 1
        /\ call.pings <= 1
        /\ call.pings = 1 =>
              /\ call.digs = 1
              /\ call.proc.returncode = 0
              /\ Split(call.proc.stdout) # <<>>
              /\ call.state = "ping" => call.addr = Some(Split(call.proc.stdout)[1])
        /\ ( /\ call.state \notin {"created", "dig"}
             /\ call.proc.returncode = 0
             /\ \A i \in 1..Len(call.proc.stdout) : call.proc.stdout[i] = " " )
           => ( /\ call.state = "returned"
                /\ call.result = [exc |-> "", val |-> None]
                /\ call.pings = 0 )

\* dig has answered nothing and the task has returned None with no ping.
C12_Witness ==
    /\ call.fn = "get_results"
    /\ call.state = "returned"
    /\ call.proc.returncode = 0
    /\ call.proc.stdout = <<" ">>
    /\ call.pings = 0
    /\ call.digs = 1

\* C13: the one process ping starts is asked for exactly count repetitions
\* at the address it was called with.
C13_CountPassThrough ==
    (call.fn = "ping" /\ call.state \in {"communicate", "done"}) =>
        /\ call.argv.prog = "ping"
        /\ call.argv.target = call.addr
        /\ call.argv.c = call.count

\* C14: a finished dig call raised iff the exit status of the utility is
\* not zero; with status zero it returned None iff the output holds nothing
\* but whitespace, and the first whitespace-delimited token otherwise.
\* Empty output with status zero is never an error.
C14_ResolverOutcome ==
    (call.fn = "dig" /\ call.state = "done") =>
        LET rc  == call.proc.returncode
            out == call.proc.stdout
            blank == \A i \in 1..Len(out) : out[i] = " "
        IN  /\ (call.result.exc # "") <=> (rc # 0)
            /\ (rc = 0 /\ blank) => call.result = [exc |-> "", val |-> None]
            /\ (rc = 0 /\ ~blank) =>
                  \E i \in 1..Len(out) :
                     /\ out[i] # " "
                     /\ \A j \in 1..(i - 1) : out[j] = " "
                     /\ call.result = [exc |-> "", val |-> Some(out[i])]

C14_Witness ==
    /\ call.fn = "dig"
    /\ call.state = "done"
    /\ call.proc = [returncode |-> 0, stdout |-> <<" ">>]
    /\ call.result = [exc |-> "", val |-> None]

\* C15: in every cell the usable count (the number of present minimum
\* latencies) is at most the attempted count, the cell carries the
\* annotation usable/attempted iff the two differ, and a cell of usable
\* count zero has the infinity sign for its mean.
C15_PartialAnnotation ==
    main_pc \in {"print", "done"} =>
        \A i \in 1..Len(awaitables) :
            LET d == awaitables[i].domain
                p == awaitables[i].provider
                ms == OwnMins(d, p, 1)
                usable == Len(Present(ms))
                attempted == Len(ms)
                c == table.at[d].at[p]
            IN  /\ usable <= attempted
                /\ c.annot = IF usable = attempted THEN None
                             ELSE Some(<<usable, attempted>>)
                /\ usable = 0 => c.mean = None

\* C16: once main has built the tasks, there is exactly one task for every
\* evaluated domain and every entry of the assignment list, and the number
\* of tasks is the number of evaluated domains times the number of
\* configured servers.
C16_TaskCardinality ==
    main_pc \notin {"assign", "tasks"} =>
        /\ Len(awaitables) = num_domains * SumServers(SERVERS)
        /\ \A r \in 1..num_domains : \A k \in 1..Len(server_addrs) :
              Occurrences(awaitables,
                          [domain |-> DOMAINS[r],
                           provider |-> server_addrs[k][1],
                           server |-> server_addrs[k][2]]) = 1

\* Tasks are built for two domains and two servers.
C16_Witness ==
    /\ main_pc = "gather"
    /\ num_domains = 2
    /\ SumServers(SERVERS) = 2
    /\ Len(awaitables) = 4

\* The output of the utility at total loss: the statistics line, no RTT
\* line, the end of the text.
TotalLoss == [stats |-> TRUE, rtt |-> None, trailing |-> FALSE]

AllAbsent == [min |-> None, avg |-> None, max |-> None, mdev |-> None]

\* C17: the result made from an output with the statistics line and no RTT
\* line has its four latency fields absent, not zero; a task that returned
\* it gives its cell an absent minimum, counted in the attempted count and
\* not in the usable count.
C17_AbsentOnTotalLoss ==
    main_pc \in {"print", "done"} =>
        /\ PingResults(TotalLoss) = [exc |-> "", val |-> Some(AllAbsent)]
        /\ \A i \in 1..Len(awaitables) :
              ret[i] = PingResults(TotalLoss).val =>
                 LET d == awaitables[i].domain
                     p == awaitables[i].provider
                     lost == { t \in 1..Len(awaitables) :
                                 /\ awaitables[t].domain = d
                                 /\ awaitables[t].provider = p
                                 /\ ret[t] = Some(AllAbsent) }
                     c == table.at[d].at[p]
                 IN  /\ Mins(results)[i] = None
                     /\ c.len = Len(OwnMins(d, p, 1))
                     /\ c.filtered_len <= c.len - Cardinality(lost)
                     /\ c.annot = Some(<<c.filtered_len, c.len>>)

\* A cell of two samples, one of total loss and one with a latency.
C17_Witness ==
    /\ main_pc = "done"
    /\ \E i, j \in 1..Len(awaitables) :
          /\ awaitables[i].domain = awaitables[j].domain
          /\ awaitables[i].provider = awaitables[j].provider
          /\ ret[i] = Some(AllAbsent)
          /\ ret[j] # None
          /\ ret[j][1].min = Some(1)
          /\ table.at[awaitables[i].domain].at[awaitables[i].provider].annot
                = Some(<<1, 2>>)

\* The waiters release() has woken, which have not run since: the slot
\* was taken for them (the value is already decremented) and they are not
\* inside the body yet.
Woken == { t \in Tasks : pc[t] = "acquire" /\ fut[t] = "done" }

AllLeft == \A t \in Tasks : pc[t] \in {"returned", "raised"}

\* C18 as stated: in every state the free permits and the tasks inside the
\* gated body add up to the ceiling, the free permits are between 0 and the
\* ceiling, and they equal the ceiling once every task has left.
C18_PermitsConserved ==
    /\ sem_value + Cardinality(holding) = ceiling
    /\ sem_value >= 0
    /\ sem_value <= ceiling
    /\ AllLeft => sem_value = ceiling

\* C18, amended: the free permits, the tasks inside the gated body and the
\* woken waiters that have not yet resumed add up to the ceiling; the tasks
\* inside are those at the resolve or the probe call; the free permits are
\* between 0 and the ceiling and equal it once every task has left, however
\* each task left.
C18_PermitsConservedHandOff ==
    /\ sem_value + Cardinality(holding) + Cardinality(Woken) = ceiling
    /\ holding = { t \in Tasks : pc[t] \in {"dig", "ping"} }
    /\ sem_value >= 0
    /\ sem_value <= ceiling
    /\ AllLeft => (sem_value = ceiling /\ holding = {})

\* Every task has left, one with a result, one by an error of its own, one
\* by cancellation, and there were more tasks than slots.
C18_Witness ==
    /\ Len(awaitables) > ceiling
    /\ AllLeft
    /\ sem_value = ceiling
    /\ \E a, b, c \in Tasks :
          /\ pc[a] = "returned" /\ ret[a] # None
          /\ pc[b] = "raised" /\ exc[b] = "CancelledError"
          /\ pc[c] = "raised" /\ exc[c] \notin {"", "CancelledError"}

\* The parts of C19.
EveryTaskAcquires ==
    \A t \in 1..MaxTasks :
        (t \in Tasks /\ pc[t] = "created") ~> (interrupted \/ t \in holding)

EveryTaskLeaves ==
    \A t \in 1..MaxTasks : (t \in Tasks) ~> (t \in Left)

GatherEnds == (main_pc = "gather") ~> (main_pc # "gather")

NoGateDeadlock ==
    []~( /\ \E t \in Tasks : pc[t] = "acquire" /\ fut[t] = "pending"
         /\ holding = {}
         /\ Woken = {}
         /\ ~cancel_req )

C20_AttemptedIsServerCount ==
    /\ main_pc \in {"print", "done"} =>
          \A r \in 1..num_domains, c \in 1..Len(SERVERS) :
              /\ DOMAINS[r] \in DOMAIN table.at
              /\ Lookup(table.at[DOMAINS[r]], SERVERS[c].name).len
                    = Len(SERVERS[c].addrs)
    /\ main_pc = "done" =>
          \A r \in 1..num_domains, c \in 1..Len(SERVERS) :
              report.rows[r].cells[c].len = Len(SERVERS[c].addrs)

\* A report for a provider of two servers and a provider of one, the
\* servers of the first apart in the assignment list, with a task that
\* returned None.
C20_Witness ==
    /\ main_pc = "done"
    /\ Len(SERVERS) = 2
    /\ Len(SERVERS[1].addrs) = 2
    /\ Len(SERVERS[2].addrs) = 1
    /\ server_addrs[1][1] = server_addrs[3][1]
    /\ \E t \in Tasks : ret[t] = None
    /\ \E t \in Tasks : ret[t] # None
    /\ report.rows[1].cells[1].len = 2
    /\ report.rows[1].cells[2].len = 1

====
